---- MODULE Spec2Model ----
(***************************************************************************)
(* Model of dataLogger.cpp: the pressure-transducer logger that configures *)
(* a NI-DAQmx analog-input task, reads numberOfBuffers buffers per         *)
(* interval, averages them, appends one record per interval to a CSV file  *)
(* and tears the task down through the shared Error label.                 *)
(*                                                                         *)
(* Doubles are modelled as exact rationals (num/den in lowest terms) with  *)
(* one non-finite value for the result of a division by zero.  The         *)
(* variable calls is the history of calls made at the device boundary.     *)
(***************************************************************************)
EXTENDS Integers, Sequences, FiniteSets, TLC

VARIABLES
    bufferSize,         \* size_t bufferSize            (line 50)
    numberOfBuffers,    \* size_t numberOfBuffers       (line 51)
    numberOfSamples,    \* size_t numberOfSamples       (line 60)
    signal,             \* the voltages the channel delivers during the run
    pc,                 \* position of main
    error,              \* int32 error                  (line 44)
    taskHandle,         \* TaskHandle taskHandle        (line 45)
    reads,              \* int32 reads                  (line 47)
    dataBuffer,         \* Yahye dataBuffer             (line 58)
    bufferAverages,     \* Yahye bufferAverages         (line 59)
    samplei,            \* outer loop counter           (line 86)
    bufferi,            \* inner loop counter           (line 89)
    window,             \* the means stored since the last record was written
    myfile,             \* std::ofstream myfile         (line 64)
    log,                \* content of dataPressureTransducer.csv
    emitted,            \* number of record writes executed at line 119
    closes,             \* number of times the open file was closed
    calls,              \* history of the calls made to the DAQmx driver
    errPrinted,         \* number of "DAQmx Error" lines printed (line 136)
    divByZero,          \* a mean was computed by dividing by a size of 0
    exitCode            \* <<>> while running, <<code>> once main returned

vars == <<bufferSize, numberOfBuffers, numberOfSamples, signal, pc, error,
          taskHandle, reads, dataBuffer, bufferAverages, samplei, bufferi,
          window, myfile, log,
          emitted, closes, calls, errPrinted, divByZero, exitCode>>

(***************************************************************************)
(* Bounds of the model (the program itself uses 100, 60 and 5000).         *)
(***************************************************************************)
MaxBufferSize == 2
MaxNumberOfBuffers == 2
MaxNumberOfSamples == 2
\* bound on bufferSize * numberOfBuffers * numberOfSamples, the samples of a run
MaxTotalSamples == 8

(***************************************************************************)
(* Doubles as exact rationals.                                             *)
(***************************************************************************)
Abs(n) == IF n < 0 THEN -n ELSE n

RECURSIVE GCD(_, _)
GCD(a, b) == IF b = 0 THEN a ELSE GCD(b, a % b)

NotFinite == [fin |-> FALSE, num |-> 0, den |-> 1]

Rat(n, d) ==
    IF d = 0 THEN NotFinite
    ELSE LET g == GCD(Abs(n), Abs(d))
             s == IF d < 0 THEN -1 ELSE 1
         IN  [fin |-> TRUE, num |-> (s * n) \div g, den |-> (s * d) \div g]

Dbl(n) == Rat(n, 1)

RAdd(a, b) ==
    IF a.fin /\ b.fin THEN Rat(a.num * b.den + b.num * a.den, a.den * b.den)
    ELSE NotFinite

RSub(a, b) ==
    IF a.fin /\ b.fin THEN Rat(a.num * b.den - b.num * a.den, a.den * b.den)
    ELSE NotFinite

RMul(a, b) ==
    IF a.fin /\ b.fin THEN Rat(a.num * b.num, a.den * b.den) ELSE NotFinite

RDiv(a, b) ==
    IF a.fin /\ b.fin THEN Rat(a.num * b.den, a.den * b.num) ELSE NotFinite

(***************************************************************************)
(* std::accumulate(v.begin(), v.end(), 0.0)                                *)
(***************************************************************************)
RECURSIVE Accumulate(_)
Accumulate(v) ==
    IF v = <<>> THEN Dbl(0)
    ELSE RAdd(Accumulate(SubSeq(v, 1, Len(v) - 1)), v[Len(v)])

(***************************************************************************)
(* accumulate(...) / (double) v.size()            (lines 104 and 114)      *)
(***************************************************************************)
Mean(v) == RDiv(Accumulate(v), Dbl(Len(v)))

\* the offset subtracted after the scaling instead of before it
Convert_OffsetLast(m) == RSub(RMul(RDiv(Dbl(15), Dbl(4)), m), Dbl(1))

(***************************************************************************)
(* meani = (15.0 / 4.0) * (meani - 1.0)           (line 107)               *)
(***************************************************************************)
Convert(m) == RMul(RDiv(Dbl(15), Dbl(4)), RSub(m, Dbl(1)))

(***************************************************************************)
(* The device boundary.  A driver call returns a negative status on error, *)
(* zero on success and a positive status as a warning.                     *)
(***************************************************************************)
ReturnCodes == {-1, 0, 1}

SampleValues == {Dbl(1), Dbl(5)}

DAQmxFailed(e) == e < 0

\* the check of the status dropped: the next statement runs after a failed call
DAQmxErrChk_Ignore(rc, next) == next

\* #define DAQmxErrChk(functionCall) if( DAQmxFailed(error=(functionCall)) ) goto Error; else
DAQmxErrChk(rc, next) == IF DAQmxFailed(rc) THEN "Error" ELSE next

Call(op, arg, rc) == [op |-> op, arg |-> arg, ok |-> ~DAQmxFailed(rc)]

SetupOps == {"CreateTask", "CreateAIVoltageChan", "CfgSampClkTiming", "StartTask"}

Count(op) == Cardinality({i \in 1..Len(calls) : calls[i].op = op})

OkReads ==
    Cardinality({i \in 1..Len(calls) :
                    calls[i].op = "ReadAnalogF64" /\ calls[i].ok})

Records == Cardinality({i \in 1..Len(log) : log[i].kind = "record"})

(***************************************************************************)
(* Vector of n doubles, value-initialised to 0.0.                          *)
(***************************************************************************)
Zeros(n) == [i \in 1..n |-> Dbl(0)]

InitRun(bs, nb, ns, sig) ==
    /\ bufferSize = bs
    /\ numberOfBuffers = nb
    /\ numberOfSamples = ns
    /\ signal = sig
    /\ pc = "CreateTask"
    /\ error = 0
    /\ taskHandle = 0
    /\ reads = 0
    /\ dataBuffer = Zeros(bs)
    /\ bufferAverages = Zeros(nb)
    /\ samplei = 0
    /\ bufferi = 0
    /\ window = <<>>
    /\ myfile = [open |-> FALSE, good |-> TRUE]
    /\ log = <<>>
    /\ emitted = 0
    /\ closes = 0
    /\ calls = <<>>
    /\ errPrinted = 0
    /\ divByZero = FALSE
    /\ exitCode = <<>>

InitWith(bs, nb, ns) == InitRun(bs, nb, ns, SampleValues)

Init ==
    \E bs \in 1..MaxBufferSize, nb \in 1..MaxNumberOfBuffers,
       ns \in 1..MaxNumberOfSamples :
        /\ bs * nb * ns <= MaxTotalSamples
        /\ InitWith(bs, nb, ns)

data_vars == <<reads, dataBuffer, bufferAverages, samplei, bufferi, window>>
file_vars == <<myfile, log, emitted, closes>>
cfg_vars == <<bufferSize, numberOfBuffers, numberOfSamples, signal>>

(***************************************************************************)
(* DAQmxErrChk(DAQmxCreateTask("", &taskHandle))              (line 68)    *)
(* A failed creation leaves the handle at its initial value 0.             *)
(***************************************************************************)
CreateTask ==
    /\ pc = "CreateTask"
    /\ \E rc \in ReturnCodes :
        /\ error' = rc
        /\ taskHandle' = IF DAQmxFailed(rc) THEN taskHandle ELSE 1
        /\ calls' = Append(calls, Call("CreateTask", 0, rc))
        /\ pc' = DAQmxErrChk(rc, "CreateAIVoltageChan")
    /\ UNCHANGED <<cfg_vars, data_vars, file_vars, errPrinted, divByZero, exitCode>>

(***************************************************************************)
(* DAQmxErrChk(DAQmxCreateAIVoltageChan(taskHandle, ...))     (line 71)    *)
(***************************************************************************)
CreateAIVoltageChan ==
    /\ pc = "CreateAIVoltageChan"
    /\ \E rc \in ReturnCodes :
        /\ error' = rc
        /\ calls' = Append(calls, Call("CreateAIVoltageChan", 0, rc))
        /\ pc' = DAQmxErrChk(rc, "CfgSampClkTiming")
    /\ UNCHANGED <<cfg_vars, taskHandle, data_vars, file_vars, errPrinted,
                   divByZero, exitCode>>

(***************************************************************************)
(* DAQmxErrChk(DAQmxCfgSampClkTiming(..., bufferSize))        (line 74)    *)
(***************************************************************************)
CfgSampClkTiming ==
    /\ pc = "CfgSampClkTiming"
    /\ \E rc \in ReturnCodes :
        /\ error' = rc
        /\ calls' = Append(calls, Call("CfgSampClkTiming", bufferSize, rc))
        /\ pc' = DAQmxErrChk(rc, "StartTask")
    /\ UNCHANGED <<cfg_vars, taskHandle, data_vars, file_vars, errPrinted,
                   divByZero, exitCode>>

(***************************************************************************)
(* DAQmxErrChk(DAQmxStartTask(taskHandle))                    (line 77)    *)
(***************************************************************************)
StartTask ==
    /\ pc = "StartTask"
    /\ \E rc \in ReturnCodes :
        /\ error' = rc
        /\ calls' = Append(calls, Call("StartTask", 0, rc))
        /\ pc' = DAQmxErrChk(rc, "open")
    /\ UNCHANGED <<cfg_vars, taskHandle, data_vars, file_vars, errPrinted,
                   divByZero, exitCode>>

(***************************************************************************)
(* operator<< on the stream: nothing is written once the stream is not     *)
(* good; otherwise the storage accepts the line or the stream goes bad.    *)
(***************************************************************************)
StreamWrite(f, accepted) == [f EXCEPT !.good = f.good /\ accepted]

LogWrite(f, content, line, accepted) ==
    IF f.good /\ accepted THEN Append(content, line) ELSE content

\* the outer loop running one interval too many
LoopPc_OneMore(si) ==
    IF si = numberOfSamples + 1 THEN "close"
    ELSE IF numberOfBuffers = 0 THEN "interval" ELSE "read"

(***************************************************************************)
(* Position of main at the test of the outer loop (line 86) with counter   *)
(* si: past the loop, or at the first statement of the next interval.      *)
(***************************************************************************)
LoopPc(si) ==
    IF si = numberOfSamples THEN "close"
    ELSE IF numberOfBuffers = 0 THEN "interval" ELSE "read"

(***************************************************************************)
(* myfile.open("dataPressureTransducer.csv"); header          (81 - 86)    *)
(* A failed open leaves the stream closed with failbit set.                *)
(***************************************************************************)
OpenLog ==
    /\ pc = "open"
    /\ \E opened \in BOOLEAN, accepted \in BOOLEAN :
        LET f == [open |-> opened, good |-> myfile.good /\ opened]
        IN  /\ myfile' = StreamWrite(f, accepted)
            /\ log' = LogWrite(f, <<>>, [kind |-> "header"], accepted)
    /\ samplei' = 0
    /\ bufferi' = 0
    /\ pc' = LoopPc(0)
    /\ UNCHANGED <<cfg_vars, error, taskHandle, reads, dataBuffer, bufferAverages,
                   window,
                   emitted, closes, calls, errPrinted, divByZero, exitCode>>

(***************************************************************************)
(* DAQmxReadAnalogF64 copies the samples it read to the front of the       *)
(* caller's array and leaves the rest of the array as it was.              *)
(***************************************************************************)
Overwrite(buf, n, data) ==
    [i \in 1..Len(buf) |-> IF i <= n THEN data[i] ELSE buf[i]]

\* the number of samples asked of the driver one more than the array holds
NumSampsPerChan_OneMore(bs) == bs + 1

\* numSampsPerChan and arraySizeInSamps of the read: bufferSize   (94, 98)
NumSampsPerChan(bs) == bs

\* every mean stored in the first element of bufferAverages
StoreIndex_Stuck(bi) == 1

\* bufferAverages[bufferi], as a position of the sequence      (line 110)
StoreIndex(bi) == bi + 1

\* the inner loop left one iteration early
InnerDone_OffByOne(bi) == bi + 1 = numberOfBuffers

\* the negated test of the inner loop, bufferi != numberOfBuffers (line 89)
InnerDone(bi) == bi = numberOfBuffers

(***************************************************************************)
(* One iteration of the inner loop (lines 89 - 111), followed, when it was *)
(* the last one of the interval, by the rest of the outer loop's body      *)
(* (lines 113 - 120) and the step of the outer loop.                       *)
(***************************************************************************)
ReadBuffer ==
    /\ pc = "read"
    /\ \E rc \in ReturnCodes :
        /\ error' = rc
        /\ calls' = Append(calls, Call("ReadAnalogF64",
                                        NumSampsPerChan(bufferSize), rc))
        /\ IF DAQmxErrChk(rc, "body") = "Error"
           THEN /\ pc' = "Error"
                /\ UNCHANGED <<data_vars, file_vars, divByZero>>
           ELSE \E n \in 0..bufferSize : \E data \in [1..n -> signal] :
                LET buf == Overwrite(dataBuffer, n, data)
                    meani == Convert(Mean(buf))
                    avgs == [bufferAverages EXCEPT ![StoreIndex(bufferi)] = meani]
                    meanOfMeans == Mean(avgs)
                    line == [kind |-> "record", interval |-> samplei,
                             value |-> meanOfMeans]
                IN  /\ reads' = n
                    /\ dataBuffer' = buf
                    /\ bufferAverages' = avgs
                    /\ window' = Append(IF bufferi = 0 THEN <<>> ELSE window,
                                        meani)
                    /\ divByZero' = (divByZero \/ Len(buf) = 0)
                    /\ IF InnerDone(bufferi + 1)
                       THEN /\ \E accepted \in BOOLEAN :
                                /\ myfile' = StreamWrite(myfile, accepted)
                                /\ log' = LogWrite(myfile, log, line, accepted)
                            /\ emitted' = emitted + 1
                            /\ samplei' = samplei + 1
                            /\ bufferi' = 0
                            /\ pc' = LoopPc(samplei + 1)
                            /\ UNCHANGED closes
                       ELSE /\ bufferi' = bufferi + 1
                            /\ pc' = "read"
                            /\ UNCHANGED <<samplei, file_vars>>
    /\ UNCHANGED <<cfg_vars, taskHandle, errPrinted, exitCode>>

(***************************************************************************)
(* An iteration of the outer loop whose inner loop has no iteration        *)
(* (numberOfBuffers is 0): lines 113 - 120 on the empty bufferAverages.    *)
(***************************************************************************)
EmptyInterval ==
    /\ pc = "interval"
    /\ \E accepted \in BOOLEAN :
        LET meanOfMeans == Mean(bufferAverages)
            line == [kind |-> "record", interval |-> samplei,
                     value |-> meanOfMeans]
        IN  /\ myfile' = StreamWrite(myfile, accepted)
            /\ log' = LogWrite(myfile, log, line, accepted)
    /\ divByZero' = (divByZero \/ Len(bufferAverages) = 0)
    /\ emitted' = emitted + 1
    /\ samplei' = samplei + 1
    /\ pc' = LoopPc(samplei + 1)
    /\ UNCHANGED <<cfg_vars, error, taskHandle, reads, dataBuffer, bufferAverages,
                   window,
                   bufferi, closes, calls, errPrinted, exitCode>>

(***************************************************************************)
(* myfile.close() (line 123): closes an open file; on a stream that is not *)
(* open it only sets failbit.  Control then falls into the Error label.    *)
(***************************************************************************)
StreamClose(f) ==
    IF f.open THEN [f EXCEPT !.open = FALSE] ELSE [f EXCEPT !.good = FALSE]

CloseLog ==
    /\ pc = "close"
    /\ myfile' = StreamClose(myfile)
    /\ closes' = IF myfile.open /\ ~myfile'.open THEN closes + 1 ELSE closes
    /\ pc' = "Error"
    /\ UNCHANGED <<cfg_vars, error, taskHandle, data_vars, log, emitted, calls,
                   errPrinted, divByZero, exitCode>>

\* the teardown without the test of the handle
TeardownCalls_NoGuard(e, h, stopRc, clearRc) ==
    (IF DAQmxFailed(e) THEN <<Call("GetExtendedErrorInfo", 0, 0)>> ELSE <<>>)
    \o <<Call("StopTask", 0, stopRc), Call("ClearTask", 0, clearRc)>>

\* the teardown releasing the task before stopping it
TeardownCalls_ClearFirst(e, h, stopRc, clearRc) ==
    (IF DAQmxFailed(e) THEN <<Call("GetExtendedErrorInfo", 0, 0)>> ELSE <<>>)
    \o (IF h # 0
        THEN <<Call("ClearTask", 0, clearRc), Call("StopTask", 0, stopRc)>>
        ELSE <<>>)

(***************************************************************************)
(* The driver calls of the Error label (lines 127 - 134); the statuses of  *)
(* DAQmxStopTask and DAQmxClearTask are not looked at.                     *)
(***************************************************************************)
TeardownCalls(e, h, stopRc, clearRc) ==
    (IF DAQmxFailed(e) THEN <<Call("GetExtendedErrorInfo", 0, 0)>> ELSE <<>>)
    \o (IF h # 0
        THEN <<Call("StopTask", 0, stopRc), Call("ClearTask", 0, clearRc)>>
        ELSE <<>>)

\* the diagnostic line printed whether or not a call failed
ErrorLines_Always(e) == 1

\* if (DAQmxFailed(error)) printf("DAQmx Error: %s\n", errBuff)   (135 - 136)
ErrorLines(e) == IF DAQmxFailed(e) THEN 1 ELSE 0

\* the status of the run returned as the exit code
ReturnValue_Status(e) == IF DAQmxFailed(e) THEN 1 ELSE 0

\* return 0                                                       (line 140)
ReturnValue(e) == 0

\* a stream that is not closed when it goes out of scope
StreamDtor_Leak(f) == f

\* myfile goes out of scope when main returns: an open file is closed
StreamDtor(f) == [f EXCEPT !.open = FALSE]

(***************************************************************************)
(* The Error label to the end of main (lines 126 - 142).                   *)
(***************************************************************************)
Teardown ==
    /\ pc = "Error"
    /\ \E stopRc \in ReturnCodes, clearRc \in ReturnCodes :
        calls' = calls \o TeardownCalls(error, taskHandle, stopRc, clearRc)
    /\ errPrinted' = errPrinted + ErrorLines(error)
    /\ myfile' = StreamDtor(myfile)
    /\ closes' = IF myfile.open /\ ~myfile'.open THEN closes + 1 ELSE closes
    /\ exitCode' = <<ReturnValue(error)>>
    /\ pc' = "done"
    /\ UNCHANGED <<cfg_vars, error, taskHandle, data_vars, log, emitted,
                   divByZero>>

Next ==
    \/ CreateTask
    \/ CreateAIVoltageChan
    \/ CfgSampClkTiming
    \/ StartTask
    \/ OpenLog
    \/ ReadBuffer
    \/ CloseLog
    \/ Teardown

Spec == Init /\ [][Next]_vars

(***************************************************************************)
(* The same program with window sizes of 0 among the configurations.       *)
(***************************************************************************)
InitAnyConfig ==
    \E bs \in 0..MaxBufferSize, nb \in 0..MaxNumberOfBuffers,
       ns \in 1..MaxNumberOfSamples :
        /\ bs * nb * ns <= MaxTotalSamples
        /\ InitWith(bs, nb, ns)

NextAnyConfig == Next \/ EmptyInterval

SpecAnyConfig == InitAnyConfig /\ [][NextAnyConfig]_vars

(***************************************************************************)
(* Runs of one interval: the run with bufferSize = 4 and numberOfBuffers = *)
(* 2 on a channel that delivers 1 V or 3 V, and the runs of Init that have *)
(* one interval.                                                           *)
(***************************************************************************)
InitOneInterval ==
    \/ InitRun(4, 2, 1, {Dbl(1), Dbl(3)})
    \/ \E bs \in 1..MaxBufferSize, nb \in 1..MaxNumberOfBuffers :
            bs * nb <= MaxTotalSamples /\ InitWith(bs, nb, 1)

SpecOneInterval == InitOneInterval /\ [][Next]_vars

TypeOK ==
    /\ pc \in {"CreateTask", "CreateAIVoltageChan", "CfgSampClkTiming",
               "StartTask", "open", "read", "interval", "close", "Error", "done"}
    /\ error \in ReturnCodes
    /\ taskHandle \in {0, 1}
    /\ reads \in 0..bufferSize
    /\ Len(dataBuffer) = bufferSize
    /\ samplei \in 0..numberOfSamples
    /\ myfile \in [open : BOOLEAN, good : BOOLEAN]
    /\ emitted \in 0..numberOfSamples
    /\ exitCode \in {<<>>, <<0>>}

FairSpec == Spec /\ WF_vars(Next)

(***************************************************************************)
(* Vocabulary of the properties.                                           *)
(***************************************************************************)
TeardownOps == {"GetExtendedErrorInfo", "StopTask", "ClearTask"}

LastCall == calls[Len(calls)]

ReadFailed ==
    \E i \in 1..Len(calls) : calls[i].op = "ReadAnalogF64" /\ ~calls[i].ok

TaskCreated == Len(calls) > 0 /\ calls[1].ok

LoopEntered == \E i \in 1..Len(calls) : calls[i].op = "StartTask" /\ calls[i].ok

\* no call of the setup or of the read loop has failed
NoDeviceFailure ==
    \A i \in 1..Len(calls) : calls[i].op \notin TeardownOps => calls[i].ok

LoopEnded == pc \in {"close", "Error", "done"}

(***************************************************************************)
(* C1 as stated: whatever call failed, once main has returned the driver   *)
(* has seen exactly one DAQmxClearTask and at most one DAQmxStopTask.      *)
(***************************************************************************)
C1_ReleasedOnceAlways ==
    pc = "done" => (Count("ClearTask") = 1 /\ Count("StopTask") <= 1)

(***************************************************************************)
(* C1 as amended: once main has returned the driver has seen exactly one   *)
(* DAQmxClearTask if DAQmxCreateTask succeeded and none if it failed; it   *)
(* never sees more than one DAQmxStopTask or DAQmxClearTask, and none      *)
(* before the teardown.                                                    *)
(***************************************************************************)
C1_ReleasedOnceIfCreated ==
    /\ Count("StopTask") <= 1
    /\ Count("ClearTask") <= 1
    /\ pc # "done" => Count("ClearTask") = 0
    /\ pc = "done" => Count("ClearTask") = (IF TaskCreated THEN 1 ELSE 0)
    /\ pc = "done" => Count("StopTask") = (IF TaskCreated THEN 1 ELSE 0)

C1_Witness ==
    pc = "done" /\ ReadFailed /\ Count("ClearTask") = 1 /\ Count("StopTask") = 1

(***************************************************************************)
(* C2 as stated: a read that succeeds with fewer samples than bufferSize   *)
(* is an error: right after it the status is a failure (and so no mean is  *)
(* computed from the buffer).                                              *)
(***************************************************************************)
C2_ShortReadIsError ==
    (/\ Len(calls) > 0
     /\ LastCall.op = "ReadAnalogF64"
     /\ LastCall.ok
     /\ reads < bufferSize) => DAQmxFailed(error)

(***************************************************************************)
(* C3: once main has returned from a run that entered the acquisition      *)
(* loop, the task was stopped and then released, and the log file is       *)
(* closed: it is not open, and it was closed once if it had been opened.   *)
(***************************************************************************)
C3_CleanupBeforeExit ==
    (pc = "done" /\ LoopEntered) =>
        /\ Count("StopTask") = 1
        /\ Count("ClearTask") = 1
        /\ calls[Len(calls) - 1].op = "StopTask"
        /\ LastCall.op = "ClearTask"
        /\ ~myfile.open
        /\ closes <= 1
        /\ log # <<>> => closes = 1

C3_Witness ==
    pc = "done" /\ ReadFailed /\ emitted >= 1 /\ log # <<>> /\ closes = 1

(***************************************************************************)
(* C4: the driver calls are serialized.  The setup calls come first, in    *)
(* order, each after the success of the one before; every read comes after *)
(* a successful start; stop comes right before release; and no setup call  *)
(* or read follows a stop or a release.                                    *)
(***************************************************************************)
C4_Serialized ==
    \A i \in 1..Len(calls) :
        /\ calls[i].op = "CreateTask" => i = 1
        /\ calls[i].op = "CreateAIVoltageChan" =>
                i = 2 /\ calls[1].op = "CreateTask" /\ calls[1].ok
        /\ calls[i].op = "CfgSampClkTiming" =>
                i = 3 /\ calls[2].op = "CreateAIVoltageChan" /\ calls[2].ok
        /\ calls[i].op = "StartTask" =>
                i = 4 /\ calls[3].op = "CfgSampClkTiming" /\ calls[3].ok
        /\ calls[i].op = "ReadAnalogF64" =>
                /\ i > 4 /\ calls[4].op = "StartTask" /\ calls[4].ok
                /\ \A j \in 5..(i - 1) :
                        calls[j].op = "ReadAnalogF64" /\ calls[j].ok
        /\ calls[i].op = "ClearTask" => i > 1 /\ calls[i - 1].op = "StopTask"
        /\ calls[i].op \in SetupOps \cup {"ReadAnalogF64"} =>
                \A j \in 1..(i - 1) : calls[j].op \notin {"StopTask", "ClearTask"}

C4_Witness ==
    pc = "done" /\ Count("ReadAnalogF64") >= 2 /\ Count("ClearTask") = 1

(***************************************************************************)
(* C5: the step in which a driver call fails stores no window mean and     *)
(* appends no record, and from then on no mean is stored, no record is     *)
(* appended and the only driver calls made are those of the teardown.      *)
(***************************************************************************)
C5_StopOnFirstError ==
    [][/\ (error' < 0 /\ ~(error < 0)) =>
            /\ bufferAverages' = bufferAverages
            /\ log' = log
            /\ emitted' = emitted
       /\ error < 0 =>
            /\ error' = error
            /\ bufferAverages' = bufferAverages
            /\ log' = log
            /\ emitted' = emitted
            /\ \A i \in (Len(calls) + 1)..Len(calls') :
                    calls'[i].op \in TeardownOps]_vars

C5_Witness ==
    /\ pc = "done"
    /\ error < 0
    /\ OkReads >= 1
    /\ \E i \in 1..Len(calls) :
        /\ ~calls[i].ok
        /\ calls[i].op = "ReadAnalogF64"
        /\ \A j \in (i + 1)..Len(calls) : calls[j].op \in TeardownOps

(***************************************************************************)
(* C6: when no call of the setup or of the loop fails, the loop ends after *)
(* numberOfSamples intervals, with numberOfSamples * numberOfBuffers reads *)
(* issued and numberOfSamples records written (all of them in the log when *)
(* the stream stayed good); and every run ends.                            *)
(***************************************************************************)
C6_Counts ==
    (LoopEnded /\ NoDeviceFailure) =>
        /\ samplei = numberOfSamples
        /\ Count("ReadAnalogF64") = numberOfSamples * numberOfBuffers
        /\ OkReads = numberOfSamples * numberOfBuffers
        /\ emitted = numberOfSamples
        /\ myfile.good => Records = numberOfSamples

C6_TerminatesAfterAllIntervals == []C6_Counts /\ <>(pc = "done")

C6_Witness ==
    /\ pc = "done"
    /\ NoDeviceFailure
    /\ numberOfSamples = 2
    /\ numberOfBuffers = 2
    /\ Records = 2

(***************************************************************************)
(* C7: bufferAverages always holds numberOfBuffers values, every inner     *)
(* iteration starts with bufferi < numberOfBuffers, and a record is        *)
(* written exactly at every numberOfBuffers-th successful read: the number *)
(* of records written is floor(successful reads / numberOfBuffers).        *)
(***************************************************************************)
C7_WindowBounded ==
    /\ Len(bufferAverages) = numberOfBuffers
    /\ pc = "read" => bufferi < numberOfBuffers
    /\ bufferi = OkReads % numberOfBuffers
    /\ emitted = OkReads \div numberOfBuffers
    /\ emitted = samplei
    /\ myfile.good => Records = OkReads \div numberOfBuffers

C7_Witness ==
    /\ numberOfBuffers = 2
    /\ OkReads = 3
    /\ emitted = 1
    /\ bufferi = 1
    /\ pc = "read"

(***************************************************************************)
(* C8 as stated: with bufferSize = 0 or numberOfBuffers = 0 no driver call *)
(* is made and no mean is computed by dividing by a size of 0.             *)
(***************************************************************************)
C8_ZeroSizeRejected ==
    (bufferSize = 0 \/ numberOfBuffers = 0) => (calls = <<>> /\ ~divByZero)

(***************************************************************************)
(* C9 as stated: once the stream has failed (the file did not open, or the *)
(* header or a record was not accepted) the loop is aborted: main is in    *)
(* the teardown or has returned, and no further read is issued.            *)
(***************************************************************************)
C9_SinkFailureAborts ==
    ~myfile.good => pc \in {"Error", "done"}

(***************************************************************************)
(* C10: main returns 0, after a normal completion and after a failed       *)
(* driver call alike; there is no exit code before main returns.           *)
(***************************************************************************)
C10_ExitCodeZero ==
    /\ pc = "done" => exitCode = <<0>>
    /\ pc # "done" => exitCode = <<>>

C10_Witness ==
    pc = "done" /\ DAQmxFailed(error) /\ exitCode = <<0>>

\* the file was opened at some point of the run
Opened == myfile.open \/ closes > 0

\* the line written for interval k (counted from 0) is at position k + 2
IsRecordOf(line, k) == line.kind = "record" /\ line.interval = k

(***************************************************************************)
(* C11 as stated: once the file was opened, the log is the header followed *)
(* by one record per completed interval, in the order of the intervals,    *)
(* and the file is closed at most once.                                    *)
(***************************************************************************)
C11_LogIsHeaderThenRecords ==
    Opened =>
        /\ Len(log) = 1 + samplei
        /\ log[1].kind = "header"
        /\ \A i \in 2..Len(log) : IsRecordOf(log[i], i - 2)
        /\ closes <= 1

(***************************************************************************)
(* C12: when a record is written, every element of bufferAverages holds a  *)
(* mean stored during the interval that just ended, in the order they were *)
(* stored, and the value of the record is the mean of exactly these means; *)
(* during an interval the elements already written hold its means.         *)
(***************************************************************************)
C12_NoLeakage ==
    /\ Len(window) <= numberOfBuffers
    /\ \A k \in 1..Len(window) : bufferAverages[k] = window[k]
    /\ (Len(window) = numberOfBuffers /\ myfile.good) =>
            /\ IsRecordOf(log[Len(log)], samplei - 1)
            /\ log[Len(log)].value = Mean(window)

C12_Witness ==
    /\ numberOfBuffers = 2
    /\ samplei = 2
    /\ Len(window) = 2
    /\ myfile.good
    /\ Len(log) = 3
    /\ log[2].value # log[3].value
    /\ window[1] # window[2]

\* the sum of whole-numbered samples, as an integer
RECURSIVE SumNum(_)
SumNum(buf) ==
    IF buf = <<>> THEN 0
    ELSE SumNum(SubSeq(buf, 1, Len(buf) - 1)) + buf[Len(buf)].num

\* the sum of values that are multiples of 1/d, in units of 1/d
RECURSIVE SumScaled(_, _)
SumScaled(v, d) ==
    IF v = <<>> THEN 0
    ELSE SumScaled(SubSeq(v, 1, Len(v) - 1), d)
            + v[Len(v)].num * (d \div v[Len(v)].den)

\* the last driver call was a read that filled the whole buffer
FullRead ==
    /\ Len(calls) > 0
    /\ LastCall.op = "ReadAnalogF64"
    /\ LastCall.ok
    /\ reads = bufferSize

(***************************************************************************)
(* C13: after a read that filled the buffer, the mean stored is            *)
(* 15/4 * (sum / bufferSize - 1) = 15 * (sum - bufferSize) / (4 *          *)
(* bufferSize); the value of a record is the sum of the numberOfBuffers    *)
(* stored means divided by numberOfBuffers.  A buffer <<1, 3, 1, 3>> gives *)
(* 15/4, two such means give a record of 15/4, and raw means of 1, 5 and 3 *)
(* give 0, 15 and 15/2.                                                    *)
(***************************************************************************)
C13_MeansAndConversion ==
    /\ FullRead =>
        LET stored == window[Len(window)]
            sum == SumNum(dataBuffer)
        IN  /\ stored = Rat(15 * (sum - bufferSize), 4 * bufferSize)
            /\ dataBuffer = <<Dbl(1), Dbl(3), Dbl(1), Dbl(3)>> =>
                    stored = Rat(15, 4)
            /\ sum = 1 * bufferSize => stored = Dbl(0)
            /\ sum = 5 * bufferSize => stored = Dbl(15)
            /\ sum = 3 * bufferSize => stored = Rat(15, 2)
    /\ (FullRead /\ Len(window) = numberOfBuffers /\ myfile.good) =>
        LET value == log[Len(log)].value
        IN  /\ value = Rat(SumScaled(window, 4 * bufferSize),
                           4 * bufferSize * numberOfBuffers)
            /\ window = <<Rat(15, 4), Rat(15, 4)>> => value = Rat(15, 4)

C13_Witness ==
    /\ bufferSize = 4
    /\ numberOfBuffers = 2
    /\ FullRead
    /\ dataBuffer = <<Dbl(1), Dbl(3), Dbl(1), Dbl(3)>>
    /\ window = <<Rat(15, 4), Rat(15, 4)>>
    /\ myfile.good
    /\ log[Len(log)].value = Rat(15, 4)

\* a call of the setup or of the read loop has failed
DeviceFailure ==
    \E i \in 1..Len(calls) : calls[i].op \notin TeardownOps /\ ~calls[i].ok

SetupFailed ==
    \E i \in 1..Len(calls) : calls[i].op \in SetupOps /\ ~calls[i].ok

StopFailed ==
    \E i \in 1..Len(calls) : calls[i].op = "StopTask" /\ ~calls[i].ok

(***************************************************************************)
(* C14 as stated: when main has returned from a run that created the task, *)
(* DAQmxStopTask was called once, DAQmxClearTask right after it, and a     *)
(* failure of the stop was logged: a line was printed beyond the one that  *)
(* reports a failed setup call or read.                                    *)
(***************************************************************************)
C14_StopBestEffortLogged ==
    (pc = "done" /\ TaskCreated) =>
        /\ Count("StopTask") = 1
        /\ Count("ClearTask") = 1
        /\ calls[Len(calls) - 1].op = "StopTask"
        /\ LastCall.op = "ClearTask"
        /\ StopFailed => errPrinted > ErrorLines(error)

(***************************************************************************)
(* C15: the extended error information is fetched only in the teardown,    *)
(* right after the failed setup call or read and before any stop or        *)
(* release; when main has returned it was fetched once and printed once if *)
(* such a call failed and never otherwise, and error still holds the       *)
(* status of that call whatever DAQmxStopTask and DAQmxClearTask returned. *)
(***************************************************************************)
C15_DiagnosticOnce ==
    /\ pc # "done" => Count("GetExtendedErrorInfo") = 0 /\ errPrinted = 0
    /\ pc = "done" =>
        /\ Count("GetExtendedErrorInfo") = (IF DeviceFailure THEN 1 ELSE 0)
        /\ errPrinted = (IF DeviceFailure THEN 1 ELSE 0)
        /\ (error < 0) <=> DeviceFailure
    /\ \A i \in 1..Len(calls) :
        calls[i].op = "GetExtendedErrorInfo" =>
            /\ i > 1
            /\ calls[i - 1].op \notin TeardownOps
            /\ ~calls[i - 1].ok
            /\ \A j \in 1..(i - 1) : calls[j].op \notin {"StopTask", "ClearTask"}

C15_Witness ==
    /\ pc = "done"
    /\ ReadFailed
    /\ StopFailed
    /\ errPrinted = 1
    /\ Count("GetExtendedErrorInfo") = 1

(***************************************************************************)
(* C16: every read asks for bufferSize samples, the size given to          *)
(* DAQmxCfgSampClkTiming and the length of dataBuffer; the length of       *)
(* dataBuffer never changes, a successful read changes at most its first   *)
(* reads elements and no other step changes it.                            *)
(***************************************************************************)
C16_ReadsFillTheSameBuffer ==
    [][/\ Len(dataBuffer') = Len(dataBuffer)
       /\ Len(dataBuffer') = bufferSize'
       /\ \A i \in 1..Len(calls') :
            calls'[i].op = "ReadAnalogF64" =>
                /\ calls'[i].arg = bufferSize'
                /\ calls'[i].arg = Len(dataBuffer')
                /\ calls'[3].op = "CfgSampClkTiming"
                /\ calls'[i].arg = calls'[3].arg
       /\ \A k \in 1..Len(dataBuffer) :
            dataBuffer'[k] # dataBuffer[k] =>
                /\ Len(calls') = Len(calls) + 1
                /\ calls'[Len(calls')].op = "ReadAnalogF64"
                /\ calls'[Len(calls')].ok
                /\ k <= reads']_vars

C16_Witness ==
    /\ bufferSize = 2
    /\ Count("ReadAnalogF64") = 2
    /\ LastCall.op = "ReadAnalogF64"
    /\ LastCall.ok
    /\ reads = 1
    /\ dataBuffer[1] # dataBuffer[2]

(***************************************************************************)
(* C17 as stated: when main has returned from a run in which a setup call  *)
(* failed, the file was never opened, nothing was written, and the task    *)
(* was stopped and released.                                               *)
(***************************************************************************)
C17_SetupFailureStillTornDown ==
    (pc = "done" /\ SetupFailed) =>
        /\ ~Opened
        /\ log = <<>>
        /\ emitted = 0
        /\ Count("StopTask") = 1
        /\ Count("ClearTask") = 1

(***************************************************************************)
(* C17 as amended: the stream is touched only after the four setup calls   *)
(* succeeded; when main has returned from a run in which a setup call      *)
(* failed, the file was never opened, nothing was written, and the task    *)
(* was stopped and released if it had been created (not otherwise).        *)
(***************************************************************************)
C17_LogOnlyAfterSetup ==
    /\ (Opened \/ ~myfile.good \/ log # <<>> \/ emitted > 0) =>
            /\ Len(calls) >= 4
            /\ \A i \in 1..4 : calls[i].op \in SetupOps /\ calls[i].ok
    /\ (pc = "done" /\ SetupFailed) =>
            /\ myfile = [open |-> FALSE, good |-> TRUE]
            /\ closes = 0
            /\ log = <<>>
            /\ emitted = 0
            /\ Count("StopTask") = (IF TaskCreated THEN 1 ELSE 0)
            /\ Count("ClearTask") = (IF TaskCreated THEN 1 ELSE 0)

C17_Witness ==
    /\ pc = "done"
    /\ Len(calls) >= 4
    /\ calls[4].op = "StartTask"
    /\ ~calls[4].ok
    /\ Count("ClearTask") = 1
    /\ log = <<>>

(***************************************************************************)
(* C18: the step in which a read fails writes no record and leaves the log *)
(* and the stored means as they were, and so does every later step; after  *)
(* it the records written are those of the completed intervals, one per    *)
(* numberOfBuffers successful reads, the successful reads of the           *)
(* incomplete interval having produced none.                               *)
(***************************************************************************)
C18_NoRecordForIncompleteInterval ==
    [][/\ (ReadFailed' /\ ~ReadFailed) =>
            /\ log' = log
            /\ emitted' = emitted
            /\ samplei' = samplei
            /\ bufferAverages' = bufferAverages
            /\ window' = window
       /\ ReadFailed =>
            /\ log' = log
            /\ emitted' = emitted
            /\ bufferAverages' = bufferAverages
       /\ ReadFailed' =>
            /\ emitted' = OkReads' \div numberOfBuffers'
            /\ emitted' = samplei'
            /\ bufferi' = OkReads' % numberOfBuffers'
            /\ Records' <= samplei'
            /\ myfile'.good => Records' = samplei']_vars

C18_Witness ==
    /\ pc = "done"
    /\ ReadFailed
    /\ numberOfBuffers = 2
    /\ samplei = 1
    /\ bufferi = 1
    /\ Records = 1
    /\ Len(window) = 1
====
